---- MODULE Spec2Model ----
(***************************************************************************)
(* A model of Zuppa: the command-line front end (zuppa/__main__.py), the   *)
(* orchestrator MainBody (zuppa/main_body.py), the PDFProducer writer      *)
(* (zuppa/methods/pdfproducer.py) and the comparison operators of the      *)
(* writer-method base class (zowie/methods/base.py).                       *)
(*                                                                         *)
(* Python strings whose characters the code inspects (the -m option and    *)
(* the method names) are sequences of one-character strings.  Asynchronous *)
(* signals (SIGINT, SIGUSR1) are not part of the model.                    *)
(***************************************************************************)
EXTENDS Integers, Sequences, FiniteSets, TLC

\* ------------------------------------------------------------------------
\* Bounds
\* ------------------------------------------------------------------------

\* Longest list of file/folder operands given on the command line.
MaxOperands == 2

\* ------------------------------------------------------------------------
\* Python string operations used by the code
\* ------------------------------------------------------------------------

UpperAlphabet ==
  << "A","B","C","D","E","F","G","H","I","J","K","L","M",
     "N","O","P","Q","R","S","T","U","V","W","X","Y","Z" >>

LowerAlphabet ==
  << "a","b","c","d","e","f","g","h","i","j","k","l","m",
     "n","o","p","q","r","s","t","u","v","w","x","y","z" >>

\* str.lower() on one character.
LowerChar(c) ==
  IF \E i \in 1..26 : UpperAlphabet[i] = c
    THEN LowerAlphabet[CHOOSE i \in 1..26 : UpperAlphabet[i] = c]
    ELSE c

\* str.lower()
StrLower(s) == [i \in 1..Len(s) |-> LowerChar(s[i])]

\* The code point of a character (ASCII), as the string comparison uses it.
Ord(c) ==
  IF \E i \in 1..26 : UpperAlphabet[i] = c
    THEN 64 + (CHOOSE i \in 1..26 : UpperAlphabet[i] = c)
  ELSE IF \E i \in 1..26 : LowerAlphabet[i] = c
    THEN 96 + (CHOOSE i \in 1..26 : LowerAlphabet[i] = c)
  ELSE 44

\* str.split(',') : the pieces between commas, empty pieces kept.
RECURSIVE StrSplit(_)
StrSplit(s) ==
  IF \A i \in 1..Len(s) : s[i] # ","
    THEN << s >>
    ELSE LET k == CHOOSE i \in 1..Len(s) :
                    /\ s[i] = ","
                    /\ \A j \in 1..(i-1) : s[j] # ","
         IN  << SubSeq(s, 1, k-1) >> \o StrSplit(SubSeq(s, k+1, Len(s)))

\* Python's  s < t  on strings: lexicographic by code point, a proper prefix
\* is smaller.
RECURSIVE StrLess(_, _)
StrLess(s, t) ==
  IF t = << >> THEN FALSE
  ELSE IF s = << >> THEN TRUE
  ELSE IF Ord(Head(s)) # Ord(Head(t)) THEN Ord(Head(s)) < Ord(Head(t))
  ELSE StrLess(Tail(s), Tail(t))

\* ------------------------------------------------------------------------
\* Exit codes, method registry
\* ------------------------------------------------------------------------

ExitCode ==
  [ success        |-> 0,
    user_interrupt |-> 1,
    bad_arg        |-> 2,
    no_network     |-> 3,
    file_error     |-> 4,
    server_error   |-> 5,
    exception      |-> 6 ]

findercomment == << "f","i","n","d","e","r","c","o","m","m","e","n","t" >>
pdfsubject    == << "p","d","f","s","u","b","j","e","c","t" >>
pdfproducer   == << "p","d","f","p","r","o","d","u","c","e","r" >>

\* The names registered in KNOWN_METHODS.
KNOWN_METHODS == { findercomment, pdfsubject, pdfproducer }

\* methods_list(): the registered names.
methods_list == KNOWN_METHODS


\* ------------------------------------------------------------------------
\* The environment: the file system and the remote library
\* ------------------------------------------------------------------------

\* Python's None for the optional string options (None and '' are both falsy).
None == ""

\* The paths that may be given as operands.
OperandPaths == { "a.pdf", "b.pdf", "notes.txt", "dir", "missing", "-x" }

\* What the file system holds.  mtime is a date written YYYYMMDD.
FileSystem ==
  [ p \in OperandPaths \cup { "dir/c.pdf", "dir/notes.txt" } |->
      CASE p = "a.pdf"         -> [kind |-> "file",   ext |-> ".pdf", mtime |-> 20230101]
        [] p = "b.pdf"         -> [kind |-> "file",   ext |-> ".pdf", mtime |-> 20230601]
        [] p = "notes.txt"     -> [kind |-> "file",   ext |-> ".txt", mtime |-> 20230601]
        [] p = "dir"           -> [kind |-> "dir",    ext |-> "",     mtime |-> 20230601]
        [] p = "dir/c.pdf"     -> [kind |-> "file",   ext |-> ".pdf", mtime |-> 20230601]
        [] p = "dir/notes.txt" -> [kind |-> "file",   ext |-> ".txt", mtime |-> 20230601]
        [] OTHER               -> [kind |-> "absent", ext |-> "",     mtime |-> 0] ]

\* The entries beneath each directory, in the order a traversal yields them.
DirectoryEntries ==
  [ p \in DOMAIN FileSystem |->
      IF p = "dir" THEN << "dir/c.pdf", "dir/notes.txt" >> ELSE << >> ]

ExistingPaths == { p \in DOMAIN FileSystem : FileSystem[p].kind # "absent" }

\* os.path.isfile, os.path.isdir, commonpy filename_extension
isfile(p) == FileSystem[p].kind = "file"

isdir(p) == FileSystem[p].kind = "dir"

filename_extension(p) == FileSystem[p].ext

\* str.startswith('-') on an operand
startswith_hyphen(p) == p = "-x"

\* commonpy files_in_directory(dir, extensions = ['.pdf'])
files_in_directory(p) ==
  SelectSeq(DirectoryEntries[p], LAMBDA q : isfile(q) /\ filename_extension(q) = ".pdf")

\* The stored content of every existing path: the two PDF Info fields the
\* writers touch and the leading URI of the Finder comment.
InitialDisk ==
  [ p \in ExistingPaths |->
      [ Producer   |-> IF p = "a.pdf" THEN "Acrobat Distiller" ELSE None,
        Subject    |-> IF p = "b.pdf" THEN "chemistry" ELSE None,
        CommentURI |-> None ] ]

\* The select link the remote library gives for a path.
LinkOf(p) ==
  CASE p = "a.pdf"     -> "zotero://select/library/items/ABCD1234"
    [] p = "b.pdf"     -> "zotero://select/library/items/EFGH5678"
    [] p = "dir/c.pdf" -> "zotero://select/library/items/IJKL9012"
    [] OTHER           -> "zotero://select/library/items/MNOP3456"

\* commonpy parsed_datetime on the -d values of the model: the date as
\* YYYYMMDD, or 0 (the parser's None) when it rejects the text.
parsed_datetime(text) ==
  CASE text = "2023-03-01" -> 20230301
    [] OTHER               -> 0

\* ------------------------------------------------------------------------
\* Command lines
\* ------------------------------------------------------------------------

\* Values of the -m option.
MethodOptions ==
  { << "M" >>,
    << "f","i","n","d","e","r","c","o","m","m","e","n","t",",",
       "p","d","f","s","u","b","j","e","c","t" >>,
    << "P","D","F","P","r","o","d","u","c","e","r" >>,
    << "p","d","f","p","r","o","d","u","c","e","r",",",
       "p","d","f","p","r","o","d","u","c","e","r" >>,
    << "p","d","f","s","u","b","j","e","c","t",",",
       "p","d","f","p","r","o","d","u","c","e","r" >>,
    << "b","o","g","u","s" >>,
    << "p","d","f","s","u","b","j","e","c","t",",","B","o","g","u","s" >> }

RECURSIVE SeqsUpTo(_, _)
SeqsUpTo(S, n) ==
  IF n = 0 THEN { << >> }
  ELSE LET shorter == SeqsUpTo(S, n - 1)
       IN  shorter \cup { Append(s, x) : s \in shorter, x \in S }

OperandLists == SeqsUpTo(OperandPaths, MaxOperands)

\* Command lines that do the real work.
RunCommandLines ==
  [ api_key    : { "A", "k3y" },
    after_date : { "D", "2023-03-01", "the other day-ish" },
    identifier : { "I", "1234567" },
    no_keyring : BOOLEAN,
    list       : { FALSE },
    methods    : MethodOptions,
    dry_run    : BOOLEAN,
    version    : { FALSE },
    files      : OperandLists ]

\* Command lines of the two informational modes.
InfoCommandLines ==
  [ api_key    : { "A" },
    after_date : { "D" },
    identifier : { "I" },
    no_keyring : { FALSE },
    list       : BOOLEAN,
    methods    : { << "M" >>, << "b","o","g","u","s" >> },
    dry_run    : { FALSE },
    version    : BOOLEAN,
    files      : { << >>, << "a.pdf" >> } ]

CommandLines ==
  RunCommandLines \cup { c \in InfoCommandLines : c.list \/ c.version }


\* ------------------------------------------------------------------------
\* State
\* ------------------------------------------------------------------------

VARIABLES
  args,            \* the parsed command line (parameters of main)
  pc,              \* where the process is
  methods,         \* main's normalised list of method names, self.methods
  writers,         \* self._writers: one writer (by name) per requested name
  after_date,      \* self.after_date: whether a filter is set, and the cutoff
  zotero,          \* self._zotero: whether the remote client was constructed
  files_,          \* self._files
  fidx,            \* position of the per-file loop in self._files
  widx,            \* position of the per-writer loop in self._writers
  link,            \* record.link of the record of the current file
  body_exception,  \* self.exception of MainBody
  exception,       \* main's local variable "exception"
  exit_code,       \* the code the process exited with (-1 while running)
  disk,            \* stored content of the files
  network,         \* what network_available() answered: "unprobed", "up", "down"
  calls,           \* the external facilities used so far
  trace,           \* record lookups and writer invocations, in order
  warnings,        \* the warnings emitted with warn()
  cmp              \* operands, operator and result of a writer comparison

vars ==
  << args, pc, methods, writers, after_date, zotero, files_, fidx, widx, link,
     body_exception, exception, exit_code, disk, network, calls, trace,
     warnings, cmp >>

\* The variables of the comparison specification.
NoInstance == [variant |-> "", id |-> 0]

NoComparison == [a |-> NoInstance, b |-> NoInstance, op |-> "", result |-> ""]

\* Exceptions are records, as sys.exc_info() gives them: the class, args[0]
\* of a CannotProceed, and (the traceback) the step that raised it.
NoException == [type |-> "None", code |-> 0, at |-> ""]

CannotProceed(code) == [type |-> "CannotProceed", code |-> code, at |-> ""]

OtherException(type) == [type |-> type, code |-> 0, at |-> ""]

Lookup(f) == [op |-> "record_for_file", file |-> f, method |-> << >>]

Write(f, m) == [op |-> "write_uri", file |-> f, method |-> m]

Init ==
  /\ args \in CommandLines
  /\ pc = "main"
  /\ methods = << >>
  /\ writers = << >>
  /\ after_date = [active |-> FALSE, cutoff |-> 0]
  /\ zotero = FALSE
  /\ files_ = << >>
  /\ fidx = 0
  /\ widx = 0
  /\ link = None
  /\ body_exception = NoException
  /\ exception = NoException
  /\ exit_code = -1
  /\ disk = InitialDisk
  /\ network = "unprobed"
  /\ calls = { }
  /\ trace = << >>
  /\ warnings = { }
  /\ cmp = NoComparison

\* ------------------------------------------------------------------------
\* main(): argument preprocessing and construction of the MainBody
\* ------------------------------------------------------------------------

\* main's values for the MainBody parameters.
api_key == IF args.api_key = "A" THEN None ELSE args.api_key

user_id == IF args.identifier = "I" THEN None ELSE args.identifier

use_keyring == ~ args.no_keyring

\* The effective list of method names.
NormalizedMethods(option) ==
  IF option = << "M" >> THEN << findercomment >> ELSE StrSplit(StrLower(option))

\* -V and -l exit with success at once; otherwise the -m value is normalised.
Main_preprocess ==
  /\ pc = "main"
  /\ IF args.version \/ args.list
       THEN /\ exit_code' = ExitCode.success
            /\ pc' = "exited"
            /\ UNCHANGED methods
       ELSE /\ methods' = NormalizedMethods(args.methods)
            /\ pc' = "construct"
            /\ UNCHANGED exit_code
  /\ UNCHANGED << args, writers, after_date, zotero, files_, fidx, widx, link,
                  body_exception, exception, disk, network, calls, trace,
                  warnings, cmp >>

\* The outcome of KNOWN_METHODS[method_name] for each requested name: the
\* KeyError of the first unregistered name, if there is one.
RegistryLookupError(names) ==
  IF \E i \in 1..Len(names) : names[i] \notin KNOWN_METHODS
    THEN OtherException("KeyError")
    ELSE NoException

\* MainBody(...): stores the parameters and builds the writers.  An
\* exception leaves main's try block with body still None.
MainBody_init ==
  /\ pc = "construct"
  /\ LET error == RegistryLookupError(methods)
     IN  IF error # NoException
           THEN /\ exception' = [error EXCEPT !.at = pc]
                /\ pc' = "main_exit"
                /\ UNCHANGED << writers, after_date >>
           ELSE /\ writers' = methods
                /\ after_date' = [active |-> args.after_date # "D", cutoff |-> 0]
                /\ pc' = "preflight_network"
                /\ UNCHANGED exception
  /\ UNCHANGED << args, methods, zotero, files_, fidx, widx, link,
                  body_exception, exit_code, disk, network, calls, trace,
                  warnings, cmp >>


\* ------------------------------------------------------------------------
\* MainBody.run() and MainBody._do_preflight()
\* ------------------------------------------------------------------------

\* run()'s "except Exception": the exception is stored, not re-raised.
RunCatches(e) ==
  /\ body_exception' = IF e = NoException THEN e ELSE [e EXCEPT !.at = pc]
  /\ pc' = "run_done"

\* A reachability check that raises nothing.
network_failure_ignored(up) == NoException

\* What the reachability check raises for an answer of network_available().
network_failure(up) ==
  IF ~ up THEN CannotProceed(ExitCode.no_network) ELSE NoException

Preflight_network ==
  /\ pc = "preflight_network"
  /\ \E up \in BOOLEAN :
       /\ network' = IF up THEN "up" ELSE "down"
       /\ calls' = calls \cup { "network_available" }
       /\ IF network_failure(up) # NoException
            THEN RunCatches(network_failure(up))
            ELSE pc' = "preflight_args" /\ UNCHANGED body_exception
  /\ UNCHANGED << args, methods, writers, after_date, zotero, files_, fidx,
                  widx, link, exception, exit_code, disk, trace, warnings, cmp >>

\* Argument checks that let an operand beginning with a hyphen through.
argument_failure_without_operand_check(names, keyring, key, id, operands) ==
  IF ~ (\A i \in 1..Len(names) : names[i] \in KNOWN_METHODS)
    THEN OtherException("NameError")
  ELSE IF ~ keyring /\ ~ (key # None \/ id # None)
    THEN CannotProceed(ExitCode.bad_arg)
  ELSE NoException

\* The three sanity checks of the arguments, in the order of the code.  The
\* first one formats its message from the name "methods", which this module
\* of the program does not define, so a NameError is what it raises.
argument_failure(names, keyring, key, id, operands) ==
  IF ~ (\A i \in 1..Len(names) : names[i] \in methods_list)
    THEN OtherException("NameError")
  ELSE IF ~ keyring /\ ~ (key # None \/ id # None)
    THEN CannotProceed(ExitCode.bad_arg)
  ELSE IF \E i \in 1..Len(operands) : startswith_hyphen(operands[i])
    THEN CannotProceed(ExitCode.bad_arg)
  ELSE NoException

Preflight_args ==
  /\ pc = "preflight_args"
  /\ LET error == argument_failure(methods, use_keyring, api_key, user_id, args.files)
     IN  IF error # NoException
           THEN RunCatches(error)
           ELSE pc' = "preflight_date" /\ UNCHANGED body_exception
  /\ UNCHANGED << args, methods, writers, after_date, zotero, files_, fidx,
                  widx, link, exception, exit_code, disk, network, calls,
                  trace, warnings, cmp >>

\* The after-date expression is parsed in place.  For a text the parser
\* rejects, the parser's answer (None) is already assigned to self.after_date
\* when the formatting of it fails; the failure is fatal.
Preflight_date ==
  /\ pc = "preflight_date"
  /\ IF after_date.active
       THEN IF parsed_datetime(args.after_date) = 0
              THEN /\ RunCatches(CannotProceed(ExitCode.bad_arg))
                   /\ after_date' = [active |-> FALSE, cutoff |-> 0]
              ELSE /\ after_date' = [active |-> TRUE,
                                     cutoff |-> parsed_datetime(args.after_date)]
                   /\ pc' = "preflight_zotero"
                   /\ UNCHANGED body_exception
       ELSE /\ pc' = "preflight_zotero"
            /\ UNCHANGED << after_date, body_exception >>
  /\ UNCHANGED << args, methods, writers, zotero, files_, fidx, widx, link,
                  exception, exit_code, disk, network, calls, trace, warnings,
                  cmp >>

\* self._zotero = Zotero(self.api_key, self.user_id, self.use_keyring)
Preflight_zotero ==
  /\ pc = "preflight_zotero"
  /\ zotero' = TRUE
  /\ calls' = calls \cup { "Zotero" }
  /\ pc' = "preflight_gather"
  /\ UNCHANGED << args, methods, writers, after_date, files_, fidx, widx, link,
                  body_exception, exception, exit_code, disk, network, trace,
                  warnings, cmp >>

\* The PDF files gathered from the operands, in order.
RECURSIVE gathered_files(_)
gathered_files(operands) ==
  IF operands = << >> THEN << >>
  ELSE LET item == Head(operands)
           found == IF isfile(item) /\ filename_extension(item) = ".pdf"
                      THEN << item >>
                    ELSE IF isdir(item) THEN files_in_directory(item)
                    ELSE << >>
       IN  found \o gathered_files(Tail(operands))

\* The operands that get the "Not a PDF file or folder" warning.
not_pdf_or_folder(operands) ==
  { operands[i] : i \in { j \in 1..Len(operands) :
        /\ ~ (isfile(operands[j]) /\ filename_extension(operands[j]) = ".pdf")
        /\ ~ isdir(operands[j]) } }

Preflight_gather ==
  /\ pc = "preflight_gather"
  /\ files_' = gathered_files(args.files)
  /\ warnings' = warnings \cup
        { << "Not a PDF file or folder of files", item >> :
              item \in not_pdf_or_folder(args.files) }
  /\ calls' = IF args.files = << >> THEN calls ELSE calls \cup { "filesystem" }
  /\ pc' = "preflight_filter"
  /\ UNCHANGED << args, methods, writers, after_date, zotero, fidx, widx, link,
                  body_exception, exception, exit_code, disk, network, trace,
                  cmp >>

\* The list the date filter walks: the loop is over self.files, the
\* operands, whatever was gathered.
date_filter_input(operands, gathered) == operands

\* Path(pdffile).stat() raises for a path that does not exist.
stat_failure(paths) ==
  IF \E i \in 1..Len(paths) : FileSystem[paths[i]].kind = "absent"
    THEN OtherException("FileNotFoundError")
    ELSE NoException

\* The paths whose modification time is at or after the cutoff.
kept_by_date(paths, cutoff) ==
  SelectSeq(paths, LAMBDA p : FileSystem[p].mtime >= cutoff)

Preflight_filter ==
  /\ pc = "preflight_filter"
  /\ IF after_date.active
       THEN LET walked == date_filter_input(args.files, files_)
            IN  /\ calls' = IF walked = << >> THEN calls
                            ELSE calls \cup { "filesystem" }
                /\ IF stat_failure(walked) # NoException
                     THEN /\ RunCatches(stat_failure(walked))
                          /\ UNCHANGED files_
                     ELSE /\ files_' = kept_by_date(walked, after_date.cutoff)
                          /\ pc' = "preflight_empty"
                          /\ UNCHANGED body_exception
       ELSE /\ pc' = "preflight_empty"
            /\ UNCHANGED << files_, calls, body_exception >>
  /\ UNCHANGED << args, methods, writers, after_date, zotero, fidx, widx, link,
                  exception, exit_code, disk, network, trace, warnings, cmp >>

\* What the emptiness check raises for the list of files that is left.
no_files_failure(files) ==
  IF files = << >> THEN CannotProceed(ExitCode.bad_arg) ELSE NoException

Preflight_empty ==
  /\ pc = "preflight_empty"
  /\ IF no_files_failure(files_) # NoException
       THEN RunCatches(no_files_failure(files_))
       ELSE pc' = "main_work" /\ UNCHANGED body_exception
  /\ UNCHANGED << args, methods, writers, after_date, zotero, files_, fidx,
                  widx, link, exception, exit_code, disk, network, calls,
                  trace, warnings, cmp >>


\* ------------------------------------------------------------------------
\* The writer methods
\* ------------------------------------------------------------------------

\* PdfReader(file) raises for something that is not a PDF file.
pdf_read_failure(file) ==
  IF isfile(file) /\ filename_extension(file) = ".pdf"
    THEN NoException
    ELSE OtherException("PdfParseError")

\* A PDFProducer.write_uri that writes the document back in a dry run too.
PDFProducer_write_uri_always(d, file, uri, dry_run) ==
  [d EXCEPT ![file] = [d[file] EXCEPT !.Producer = uri]]

\* PDFProducer.write_uri: the document is read, its Producer field is set,
\* and the document is written back unless this is a dry run.
PDFProducer_write_uri(d, file, uri, dry_run) ==
  LET trailer  == d[file]
      modified == [trailer EXCEPT !.Producer = uri]
  IN  IF ~ dry_run THEN [d EXCEPT ![file] = modified] ELSE d

\* PDFSubject.write_uri: the same on the Subject field.
PDFSubject_write_uri(d, file, uri, dry_run) ==
  LET trailer  == d[file]
      modified == [trailer EXCEPT !.Subject = uri]
  IN  IF ~ dry_run THEN [d EXCEPT ![file] = modified] ELSE d

\* FinderComment.write_uri: the URI leading the Finder comment is replaced
\* (or prepended), the rest of the comment is kept.
FinderComment_write_uri(d, file, uri, dry_run) ==
  IF ~ dry_run THEN [d EXCEPT ![file].CommentURI = uri] ELSE d

\* writer.write_uri(pdffile, record.link, self.dry_run): what it raises ...
write_uri_failure(method, file) ==
  IF method \in { pdfproducer, pdfsubject }
    THEN pdf_read_failure(file)
    ELSE NoException

\* ... and what it leaves stored when it returns.
write_uri(method, d, file, uri, dry_run) ==
  CASE method = pdfproducer -> PDFProducer_write_uri(d, file, uri, dry_run)
    [] method = pdfsubject  -> PDFSubject_write_uri(d, file, uri, dry_run)
    [] OTHER                -> FinderComment_write_uri(d, file, uri, dry_run)

\* ------------------------------------------------------------------------
\* MainBody._do_main_work()
\* ------------------------------------------------------------------------

\* The dry-run warning and the summary; then the loop over self._files.
MainWork_begin ==
  /\ pc = "main_work"
  /\ warnings' = warnings \cup { << "Running in dry run mode", "" >> }
  /\ IF files_ = << >>
       THEN RunCatches(NoException) /\ UNCHANGED fidx
       ELSE /\ fidx' = 1
            /\ pc' = "loop_record"
            /\ UNCHANGED body_exception
  /\ UNCHANGED << args, methods, writers, after_date, zotero, files_, widx,
                  link, exception, exit_code, disk, network, calls, trace, cmp >>

\* An inner loop that walks the writers from the last to the first.
writer_at_reversed(ws, i) == ws[Len(ws) + 1 - i]

\* The writer the inner loop takes at its i-th turn.
writer_at(ws, i) == ws[i]

\* Where the loops stand after the writer at position w has run for the
\* file at position f: the next writer, else the next file, else the end.
AfterWriter(f, w) ==
  IF w < Len(writers)
    THEN /\ widx' = w + 1
         /\ pc' = "loop_write"
         /\ UNCHANGED << fidx, body_exception >>
  ELSE IF f < Len(files_)
    THEN /\ fidx' = f + 1
         /\ pc' = "loop_record"
         /\ UNCHANGED << widx, body_exception >>
  ELSE /\ RunCatches(NoException)
       /\ UNCHANGED << fidx, widx >>

\* How Zotero.record_for_file may end: with a record, or with a CannotProceed
\* for a failure of the remote service.
record_for_file_answers == { "record", "server_error" }

\* record = self._zotero.record_for_file(pdffile)
Loop_record ==
  /\ pc = "loop_record"
  /\ trace' = Append(trace, Lookup(files_[fidx]))
  /\ \E answer \in record_for_file_answers :
       IF answer = "server_error"
         THEN /\ RunCatches(CannotProceed(ExitCode.server_error))
              /\ UNCHANGED << link, fidx, widx >>
         ELSE /\ link' = LinkOf(files_[fidx])
              /\ AfterWriter(fidx, 0)
  /\ UNCHANGED << args, methods, writers, after_date, zotero, files_,
                  exception, exit_code, disk, network, calls, warnings, cmp >>

\* writer.write_uri(pdffile, record.link, self.dry_run)
Loop_write ==
  /\ pc = "loop_write"
  /\ LET file   == files_[fidx]
         method == writer_at(writers, widx)
     IN  /\ trace' = Append(trace, Write(file, method))
         /\ IF write_uri_failure(method, file) # NoException
              THEN /\ RunCatches(write_uri_failure(method, file))
                   /\ UNCHANGED << disk, fidx, widx >>
              ELSE /\ disk' = write_uri(method, disk, file, link, args.dry_run)
                   /\ AfterWriter(fidx, widx)
  /\ UNCHANGED << args, methods, writers, after_date, zotero, files_, link,
                  exception, exit_code, network, calls, warnings, cmp >>

\* ------------------------------------------------------------------------
\* main(): after the run
\* ------------------------------------------------------------------------

\* exception = body.exception
Main_after_run ==
  /\ pc = "run_done"
  /\ exception' = body_exception
  /\ pc' = "main_exit"
  /\ UNCHANGED << args, methods, writers, after_date, zotero, files_, fidx,
                  widx, link, body_exception, exit_code, disk, network, calls,
                  trace, warnings, cmp >>

\* An exit-code mapping that treats a CannotProceed like any exception.
exit_code_for_generic(e) ==
  IF e # NoException THEN ExitCode.exception ELSE ExitCode.success

\* The exit code main computes from the exception it holds.
exit_code_for(e) ==
  IF e # NoException
    THEN IF e.type = "CannotProceed" THEN e.code
         ELSE IF e.type \in { "KeyboardInterrupt", "UserCancelled" }
           THEN ExitCode.user_interrupt
         ELSE ExitCode.exception
    ELSE ExitCode.success

Main_exit ==
  /\ pc = "main_exit"
  /\ exit_code' = exit_code_for(exception)
  /\ pc' = "exited"
  /\ UNCHANGED << args, methods, writers, after_date, zotero, files_, fidx,
                  widx, link, body_exception, exception, disk, network, calls,
                  trace, warnings, cmp >>

Next ==
  \/ Main_preprocess
  \/ MainBody_init
  \/ Preflight_network
  \/ Preflight_args
  \/ Preflight_date
  \/ Preflight_zotero
  \/ Preflight_gather
  \/ Preflight_filter
  \/ Preflight_empty
  \/ MainWork_begin
  \/ Loop_record
  \/ Loop_write
  \/ Main_after_run
  \/ Main_exit

Spec == Init /\ [][Next]_vars


\* ------------------------------------------------------------------------
\* Comparison of writer-method instances (class WriterMethod)
\* ------------------------------------------------------------------------

\* Instances of each variant that a comparison may be given.
MaxInstances == 2

Variants == { "FinderComment", "PDFSubject", "PDFProducer" }

Instances == [variant : Variants, id : 1..MaxInstances]

\* self.name()
name(self) ==
  CASE self.variant = "FinderComment" -> findercomment
    [] self.variant = "PDFSubject"    -> pdfsubject
    [] self.variant = "PDFProducer"   -> pdfproducer

\* isinstance(other, type(self)): no variant derives from another.
isinstance(other, self) == other.variant = self.variant

\* A Python bool, as the value a method returns.
PyBool(b) == IF b THEN "True" ELSE "False"

WriterMethod_eq(self, other) ==
  IF ~ isinstance(other, self)
    THEN "NotImplemented"
    ELSE PyBool(~ StrLess(name(self), name(other)) /\ ~ StrLess(name(other), name(self)))

\* The body calls the bare name __eq__, which is neither a global nor a
\* builtin: the call raises NameError.
WriterMethod_ne(self, other) == "NameError"

WriterMethod_lt(self, other) == PyBool(StrLess(name(self), name(other)))

WriterMethod_gt(self, other) ==
  IF ~ isinstance(other, self)
    THEN "NotImplemented"
    ELSE PyBool(StrLess(name(other), name(self)))

WriterMethod_le(self, other) ==
  IF ~ isinstance(other, self)
    THEN "NotImplemented"
    ELSE PyBool(~ StrLess(name(other), name(self)))

WriterMethod_ge(self, other) ==
  IF ~ isinstance(other, self)
    THEN "NotImplemented"
    ELSE PyBool(~ StrLess(name(self), name(other)))

ComparisonOperators == { "==", "!=", "<", "<=", ">", ">=" }

\* The method an operator calls on its left operand.
comparison_method(op, self, other) ==
  CASE op = "==" -> WriterMethod_eq(self, other)
    [] op = "!=" -> WriterMethod_ne(self, other)
    [] op = "<"  -> WriterMethod_lt(self, other)
    [] op = "<=" -> WriterMethod_le(self, other)
    [] op = ">"  -> WriterMethod_gt(self, other)
    [] op = ">=" -> WriterMethod_ge(self, other)

\* The operator whose method is tried on the right operand.
reflected(op) ==
  CASE op = "<"  -> ">"
    [] op = "<=" -> ">="
    [] op = ">"  -> "<"
    [] op = ">=" -> "<="
    [] OTHER     -> op

\* The value (or the exception) of  a op b : the left operand's method, then
\* the right operand's reflected method if the first returned
\* NotImplemented, then identity for == and !=, TypeError for the others.
rich_compare(a, op, b) ==
  LET first  == comparison_method(op, a, b)
      second == comparison_method(reflected(op), b, a)
  IN  IF first # "NotImplemented" THEN first
      ELSE IF second # "NotImplemented" THEN second
      ELSE CASE op = "==" -> PyBool(a = b)
             [] op = "!=" -> PyBool(a # b)
             [] OTHER     -> "TypeError"

\* The comparison specification: two instances are drawn, one operator is
\* applied to them.
InitCmp ==
  /\ args = [ api_key |-> "A", after_date |-> "D", identifier |-> "I",
              no_keyring |-> FALSE, list |-> FALSE, methods |-> << "M" >>,
              dry_run |-> FALSE, version |-> FALSE, files |-> << >> ]
  /\ pc = "compare"
  /\ methods = << >>
  /\ writers = << >>
  /\ after_date = [active |-> FALSE, cutoff |-> 0]
  /\ zotero = FALSE
  /\ files_ = << >>
  /\ fidx = 0
  /\ widx = 0
  /\ link = None
  /\ body_exception = NoException
  /\ exception = NoException
  /\ exit_code = -1
  /\ disk = InitialDisk
  /\ network = "unprobed"
  /\ calls = { }
  /\ trace = << >>
  /\ warnings = { }
  /\ cmp \in [a : Instances, b : Instances, op : { "" }, result : { "" }]

Compare ==
  /\ pc = "compare"
  /\ cmp.op = ""
  /\ \E op \in ComparisonOperators :
       cmp' = [cmp EXCEPT !.op = op, !.result = rich_compare(cmp.a, op, cmp.b)]
  /\ UNCHANGED << args, pc, methods, writers, after_date, zotero, files_, fidx,
                  widx, link, body_exception, exception, exit_code, disk,
                  network, calls, trace, warnings >>

NextCmp == Compare

SpecCmp == InitCmp /\ [][NextCmp]_vars

\* ------------------------------------------------------------------------
\* Properties
\* ------------------------------------------------------------------------

\* What the comparison of two names as strings gives for each operator.
NameComparison(op, m, n) ==
  CASE op = "==" -> m = n
    [] op = "!=" -> m # n
    [] op = "<"  -> StrLess(m, n)
    [] op = "<=" -> StrLess(m, n) \/ m = n
    [] op = ">"  -> StrLess(n, m)
    [] op = ">=" -> StrLess(n, m) \/ m = n

\* C7: every comparison operator applied to two writer-method instances
\* returns the boolean that the same comparison of their names gives.
C7_ComparisonFollowsNames ==
  cmp.op # "" =>
    cmp.result = PyBool(NameComparison(cmp.op, name(cmp.a), name(cmp.b)))


\* ------------------------------------------------------------------------
\* Properties of a run
\* ------------------------------------------------------------------------

Range(seq) == { seq[i] : i \in 1..Len(seq) }

IsPrefix(s, t) == Len(s) <= Len(t) /\ SubSeq(t, 1, Len(s)) = s

Last(seq) == seq[Len(seq)]

\* The run is one that does the real work (neither -V nor -l).
RealRun == ~ args.version /\ ~ args.list

\* A requested method name is not registered.
RequestsUnregistered ==
  \E m \in Range(NormalizedMethods(args.methods)) : m \notin KNOWN_METHODS

\* The steps after the preflight.
InMainWork == pc \in { "main_work", "loop_record", "loop_write" }

\* The run is over, or all that is left is to leave with the exit code.
Leaving == pc \in { "run_done", "main_exit", "exited" }

\* C1: a run that requests an unregistered method name exits with code 2,
\* and has by then probed no network, constructed no remote client, looked
\* up no record and touched no file.
C1_UnregisteredMethodExitsBadArg ==
  (RealRun /\ RequestsUnregistered /\ pc = "exited") =>
     /\ exit_code = ExitCode.bad_arg
     /\ calls = { }
     /\ network = "unprobed"
     /\ trace = << >>

\* C2: once the reachability check has answered that the network is
\* unavailable, the run only leaves, with exit code 3; the remote client is
\* never constructed, no record is looked up and no writer is invoked.
C2_NoNetworkExits3 ==
  network = "down" =>
     /\ Leaving
     /\ pc = "exited" => exit_code = ExitCode.no_network
     /\ ~ zotero
     /\ "Zotero" \notin calls
     /\ trace = << >>
     /\ disk = InitialDisk

C2_Witness ==
  /\ network = "down"
  /\ pc = "exited"
  /\ exit_code = ExitCode.no_network

\* A CannotProceed caught by run() is held in self.exception, handed to main
\* unchanged, and its code is the exit code.
C3_Recorded ==
  body_exception.type = "CannotProceed" =>
     /\ Leaving
     /\ pc \in { "main_exit", "exited" } => exception = body_exception
     /\ pc = "exited" => exit_code = body_exception.code

\* Once a CannotProceed is recorded, no step looks up a record, invokes a
\* writer or changes a file.
C3_NothingAfter ==
  body_exception.type = "CannotProceed" => trace' = trace /\ disk' = disk

\* C3: a CannotProceed raised in the preflight or in the per-file loop is
\* recorded by run() without being re-raised, the process exits with exactly
\* the code it carries, and after it was raised there is no further record
\* lookup and no further writer invocation; what was written stays written.
C3_FatalConditionDecidesExit ==
  [] C3_Recorded /\ [][C3_NothingAfter]_vars

C3_Witness ==
  /\ pc = "exited"
  /\ body_exception.type = "CannotProceed"
  /\ body_exception.at = "loop_record"
  /\ exit_code = ExitCode.server_error
  /\ disk # InitialDisk

\* For every file in order: its record lookup, then one writer invocation
\* per name, in the order of the names.
RECURSIVE ExpectedTrace(_, _)
ExpectedTrace(files, names) ==
  IF files = << >> THEN << >>
  ELSE << Lookup(Head(files)) >>
         \o [i \in 1..Len(names) |-> Write(Head(files), names[i])]
         \o ExpectedTrace(Tail(files), names)

\* The -m value "findercomment,pdfsubject"
FinderCommentThenPDFSubject ==
  << "f","i","n","d","e","r","c","o","m","m","e","n","t",",",
     "p","d","f","s","u","b","j","e","c","t" >>

\* C4: the lookups and writer invocations made so far are always an initial
\* part of: for each file of the list in order, its lookup, then one
\* invocation per requested name (lowercased, split on commas, duplicates
\* kept) in the requested order; a run that succeeds has made all of them.
C4_SequentialInRequestedOrder ==
  /\ trace # << >> =>
       IsPrefix(trace, ExpectedTrace(files_, NormalizedMethods(args.methods)))
  /\ (RealRun /\ pc = "exited" /\ exit_code = ExitCode.success) =>
       trace = ExpectedTrace(files_, NormalizedMethods(args.methods))
  /\ (trace # << >> /\ args.methods = FinderCommentThenPDFSubject) =>
       IsPrefix(trace, ExpectedTrace(files_, << findercomment, pdfsubject >>))

C4_Witness ==
  /\ pc = "exited"
  /\ exit_code = ExitCode.success
  /\ Len(files_) >= 2
  /\ writers = << pdfsubject, pdfproducer >>
  /\ Len(trace) = 6

\* C5: with an after-date filter, the list handed to main work is the
\* gathered PDF files whose modification time is at or after the cutoff, in
\* the order they were gathered.
C5_DateFilterKeepsGatheredFiles ==
  (after_date.active /\ (pc = "preflight_empty" \/ InMainWork)) =>
     files_ = kept_by_date(gathered_files(args.files), after_date.cutoff)

\* A step in which PDFProducer.write_uri was called and returned.
PDFProducerReturned ==
  /\ Len(trace') = Len(trace) + 1
  /\ Last(trace').op = "write_uri"
  /\ Last(trace').method = pdfproducer
  /\ body_exception' = NoException

\* What such a step does to the stored files.
C6_Effect ==
  PDFProducerReturned =>
    LET file == Last(trace').file
    IN  IF args.dry_run
          THEN disk' = disk
          ELSE /\ disk'[file].Producer = link
               /\ disk'[file].Subject = disk[file].Subject
               /\ \A p \in DOMAIN disk : p # file => disk'[p] = disk[p]
               /\ (trace # << >> /\ Last(trace) = Last(trace')) => disk' = disk

\* C6: a call of PDFProducer.write_uri that is not a dry run leaves the
\* file's Producer field equal to the URI, whatever it held, and changes
\* nothing else, so that a second call with the same URI changes nothing; a
\* dry-run call leaves every stored file as it was.
C6_PDFProducerWrite == [][C6_Effect]_vars

C6_Witness ==
  /\ ~ args.dry_run
  /\ Len(trace) >= 3
  /\ trace[2] = Write("a.pdf", pdfproducer)
  /\ trace[3] = Write("a.pdf", pdfproducer)
  /\ body_exception = NoException
  /\ InitialDisk["a.pdf"].Producer # None
  /\ disk["a.pdf"].Producer = LinkOf("a.pdf")

\* Discovery has taken place: the remote client is constructed right before
\* it, and the gathering step is behind.
Discovered == zotero /\ pc # "preflight_gather"

\* No PDF file survives discovery and date filtering: of the gathered PDF
\* files, none (with a filter: none modified at or after the cutoff).
NoPDFSurvives ==
  LET gathered == gathered_files(args.files)
  IN  (IF after_date.active
         THEN kept_by_date(gathered, after_date.cutoff)
         ELSE gathered) = << >>

\* The run fails fatally with the bad-argument code: main work is not
\* entered, nothing is looked up or written, and the exit code is 2.
C8_FailsWithBadArg ==
  /\ ~ InMainWork
  /\ trace = << >>
  /\ body_exception.type \in { "None", "CannotProceed" }
  /\ body_exception.type = "CannotProceed" =>
        body_exception.code = ExitCode.bad_arg
  /\ pc = "exited" => exit_code = ExitCode.bad_arg

\* Until the abort there was no reachability probe, no construction of the
\* remote client and no file access.
C8_NothingAccessed ==
  body_exception # NoException =>
     /\ calls = { }
     /\ network = "unprobed"
     /\ ~ zotero

\* C8: in a run in which no PDF file survives discovery and date filtering,
\* the run fails fatally with exit code 2, and no network access (probe,
\* remote client, record lookup) and no file access happened before the
\* abort.
C8_NoSurvivorAbortsBeforeAnyAccess ==
  (RealRun /\ Discovered /\ NoPDFSurvives) =>
     /\ C8_FailsWithBadArg
     /\ C8_NothingAccessed

\* C9: in a run whose operands are acceptable to the operand sanity check,
\* an operand that is neither a PDF file nor a directory is never in the
\* list that main work processes and never makes the run fail, and the
\* files gathered from the other operands are still the ones processed.
C9_OddOperandOnlyWarns ==
  \A p \in not_pdf_or_folder(args.files) :
     (~ startswith_hyphen(p)) =>
        /\ InMainWork => p \notin Range(files_)
        /\ body_exception.type # "FileNotFoundError"
        /\ (InMainWork /\ ~ after_date.active) =>
              files_ = gathered_files(args.files)
        /\ (InMainWork /\ after_date.active) =>
              files_ = kept_by_date(gathered_files(args.files), after_date.cutoff)

\* C10: with the credential store disabled and the API key or the
\* identifier missing, a run that passed the reachability check fails with
\* exit code 2 and never constructs the remote client.
C10_BothCredentialsRequired ==
  (args.no_keyring /\ (api_key = None \/ user_id = None) /\ network = "up") =>
     /\ ~ zotero
     /\ "Zotero" \notin calls
     /\ pc = "exited" => exit_code = ExitCode.bad_arg


\* The steps of _do_preflight.
PreflightSteps ==
  { "preflight_network", "preflight_args", "preflight_date",
    "preflight_zotero", "preflight_gather", "preflight_filter",
    "preflight_empty" }

\* The warning _do_main_work starts with.
DryRunWarning == << "Running in dry run mode", "" >>

\* Every check of the preflight has passed and every step of it was made.
PreflightPassed ==
  /\ network = "up"
  /\ \A m \in Range(methods) : m \in KNOWN_METHODS
  /\ use_keyring \/ api_key # None \/ user_id # None
  /\ \A p \in Range(args.files) : ~ startswith_hyphen(p)
  /\ after_date.active => after_date.cutoff = parsed_datetime(args.after_date)
  /\ after_date.active => after_date.cutoff # 0
  /\ zotero
  /\ { "network_available", "Zotero", "filesystem" } \subseteq calls
  /\ files_ # << >>
  /\ body_exception.at \notin PreflightSteps

\* C11: a record lookup or a writer invocation happens only in a run whose
\* preflight has completed every step without failure; a run in which a
\* preflight step failed never enters main work, looks up no record,
\* invokes no writer and changes no file.
C11_PreflightAllOrNothing ==
  /\ (trace # << >> \/ InMainWork \/ DryRunWarning \in warnings) => PreflightPassed
  /\ body_exception.at \in PreflightSteps =>
        /\ Leaving
        /\ trace = << >>
        /\ disk = InitialDisk
        /\ DryRunWarning \notin warnings

C11_Witness ==
  /\ pc = "exited"
  /\ after_date.active
  /\ Len(trace) >= 4
  /\ disk # InitialDisk
  /\ PreflightPassed

\* C12: once main work has begun, the warning that no files will be
\* modified has been emitted exactly if the dry-run flag is set; a run with
\* dry-run off never emits it.
C12_DryRunWarningOnlyInDryRun ==
  /\ (pc \in { "loop_record", "loop_write" } \/ trace # << >>) =>
        (DryRunWarning \in warnings <=> args.dry_run)
  /\ ~ args.dry_run => DryRunWarning \notin warnings

====
